---- MODULE Spec2Model ----
(***************************************************************************)
(* The pursuit engine of grid-game: breadth-first path finding, the two    *)
(* adversaries' turn logic, and the turn loop of main() with the record    *)
(* store.  grid-game-v4.py is the dual-adversary game, grid-game-v3.py the *)
(* single-adversary one.                                                   *)
(*                                                                         *)
(* A cell is the pair <<row, column>>.  A grid is given by its side        *)
(* (len(grid), equal to GRID_SIZE) and the set of its WALL cells.          *)
(***************************************************************************)
EXTENDS Integers, Sequences, FiniteSets, TLC

\* ------------------------------------------------------------------------
\* Bounds of the model (the configuration of the game, scaled down).
\* ------------------------------------------------------------------------
GameSize == 4     \* GRID_SIZE of the dual-adversary sessions explored
BfsSize == 3      \* side of the grids on which bfs_first_step is explored
MaxWalls == 2     \* most WALL cells of a grid on which bfs_first_step is explored
MaxTurn == 5      \* turns a session is followed for
MaxQuery == 3     \* most moves of the short move lists predict_next_move is asked with
PlaceSize == 3    \* side of the grids on which place_entities is explored
NUM_TRAPS == 2    \* the trap budget of a session (configuration, 3 in the source)

\* ------------------------------------------------------------------------
\* Program constants.
\* ------------------------------------------------------------------------
AI_STUN_TURNS == 2
CLOSE_RANGE == 2
BIG_DISTANCE == 1000000000
MARKOV_ORDER == 2
\* Scores of predict_next_move are kept in hundredths.
ScoreScale == 100
GLOBAL_WEIGHT == 50       \* 0.50
RECENCY_WEIGHT == 200     \* 2.0
PREDICT_FUZZ == 15        \* 0.15
RECENT_MOVES == 8         \* this_game_moves[-8:]

VARIABLES
    size,              \* GRID_SIZE / len(grid)
    walls,             \* the WALL cells of grid
    player_pos, ai_pos, ai2_pos, goal_pos,
    traps,             \* set of armed trap cells
    traps_left,
    this_game_moves,   \* sequence of direction labels
    ai_stunned, ai2_stunned,
    turn,
    successful_traps,
    memory,            \* games loaded by main() at session start
    memfile,           \* content of ai_memory.json
    pc,                \* position in main(): input, aiA, aiB, check, done
    ch,                \* the key getch() returned for the turn in progress
    result,            \* "playing" or the result handed to save_game
    met,               \* history: an adversary shared the player's cell in this turn
    bfs_start, bfs_target, bfs_step,  \* a single bfs_first_step query
    model,             \* contexts of build_markov_model: context -> counter
    global_counts,     \* counter of all moves of all recorded games
    combined,          \* the scores of a single predict_next_move query
    predicted          \* the direction that query returned

vars == <<size, walls, player_pos, ai_pos, ai2_pos, goal_pos, traps, traps_left,
          this_game_moves, ai_stunned, ai2_stunned, turn, successful_traps,
          memory, memfile, pc, ch, result, met, bfs_start, bfs_target, bfs_step,
          model, global_counts, combined, predicted>>

gameVars == <<player_pos, ai_pos, ai2_pos, goal_pos, traps, traps_left,
              this_game_moves, ai_stunned, ai2_stunned, turn, successful_traps,
              memory, memfile, ch, result, met>>

bfsVars == <<bfs_start, bfs_target, bfs_step>>

predVars == <<model, global_counts, combined, predicted>>

\* ------------------------------------------------------------------------
\* Directions and cells.
\* ------------------------------------------------------------------------
None == <<>>

\* No key read yet in this turn.
NoKey == "none"

\* DIRS, in its insertion order (the order DIRS.values() and DIRS.items() yield).
DirOrder == <<"north", "south", "west", "east">>

\* DIRS.keys() as a set.
DirLabels == {"north", "south", "west", "east"}

DIRS(d) ==
    CASE d = "north" -> <<-1, 0>>
      [] d = "south" -> <<1, 0>>
      [] d = "west"  -> <<0, -1>>
      [] d = "east"  -> <<0, 1>>

Cells(n) == (0 .. n - 1) \X (0 .. n - 1)

Add(pos, d) == <<pos[1] + DIRS(d)[1], pos[2] + DIRS(d)[2]>>

Abs(x) == IF x < 0 THEN -x ELSE x

manhattan(a, b) == Abs(a[1] - b[1]) + Abs(a[2] - b[2])

in_bounds(pos, n) == 0 <= pos[1] /\ pos[1] < n /\ 0 <= pos[2] /\ pos[2] < n

\* ------------------------------------------------------------------------
\* Path finding.
\* ------------------------------------------------------------------------
\* Mutant: the neighbours are yielded in the reverse of DIRS order.
neighbors_EastFirst(cell, n, ws) ==
    LET cand == [i \in 1 .. 4 |-> Add(cell, DirOrder[5 - i])]
        ok(x) == in_bounds(x, n) /\ x \notin ws
    IN  SelectSeq(cand, ok)

\* Mutant: the WALL test of neighbors is dropped.
neighbors_NoWallTest(cell, n, ws) ==
    LET cand == [i \in 1 .. 4 |-> Add(cell, DirOrder[i])]
        ok(x) == in_bounds(x, n)
    IN  SelectSeq(cand, ok)

\* neighbors(r, c, grid): the legal neighbours, in DIRS order.
neighbors(cell, n, ws) ==
    LET cand == [i \in 1 .. 4 |-> Add(cell, DirOrder[i])]
        ok(x) == in_bounds(x, n) /\ x \notin ws
    IN  SelectSeq(cand, ok)

\* Mutant: the reconstruction loop is skipped and the found cell returned.
WalkBack_NoWalk(cur, prev, start) == cur

\* The reconstruction loop: walk prev back until the cell whose predecessor is start.
RECURSIVE WalkBack(_, _, _)
WalkBack(cur, prev, start) ==
    IF prev[cur] = start THEN cur ELSE WalkBack(prev[cur], prev, start)

\* The for-loop over the neighbours nbrs of the dequeued cell.
RECURSIVE BfsVisit(_, _, _, _, _, _)
BfsVisit(cell, nbrs, q, prev, start, target) ==
    IF nbrs = <<>>
    THEN [found |-> FALSE, step |-> None, q |-> q, prev |-> prev]
    ELSE LET nb == Head(nbrs) IN
         IF nb \in DOMAIN prev
         THEN BfsVisit(cell, Tail(nbrs), q, prev, start, target)
         ELSE LET prev2 == prev @@ (nb :> cell) IN
              IF nb = target
              THEN [found |-> TRUE, step |-> WalkBack(nb, prev2, start),
                    q |-> q, prev |-> prev2]
              ELSE BfsVisit(cell, Tail(nbrs), Append(q, nb), prev2, start, target)

\* The while-loop over the queue.
RECURSIVE BfsLoop(_, _, _, _, _, _)
BfsLoop(q, prev, start, target, n, ws) ==
    IF q = <<>>
    THEN None
    ELSE LET r == BfsVisit(Head(q), neighbors(Head(q), n, ws), Tail(q), prev,
                           start, target)
         IN  IF r.found THEN r.step
             ELSE BfsLoop(r.q, r.prev, start, target, n, ws)

bfs_first_step(start, target, n, ws) ==
    IF start = target
    THEN start
    ELSE BfsLoop(<<start>>, (start :> None), start, target, n, ws)

\* ------------------------------------------------------------------------
\* Reference notions the properties are stated with (not taken from the code).
\* ------------------------------------------------------------------------
Adjacent(a, b) == manhattan(a, b) = 1

\* The four cells orthogonally adjacent to a, on the grid or not.
Around(a) == {<<a[1] - 1, a[2]>>, <<a[1] + 1, a[2]>>,
              <<a[1], a[2] - 1>>, <<a[1], a[2] + 1>>}

\* Length of a shortest path to b from the cells of frontier, which lie k steps
\* from the origin of the search; seen holds the cells already reached.  Steps go
\* onto in-bounds non-WALL cells.  n * n + 1 when there is no path.
RECURSIVE DistFrom(_, _, _, _, _, _)
DistFrom(seen, frontier, k, b, n, ws) ==
    IF b \in frontier THEN k
    ELSE IF frontier = {} THEN n * n + 1
    ELSE LET next == {c \in UNION {Around(f) : f \in frontier} :
                        c \in Cells(n) /\ c \notin ws /\ c \notin seen}
         IN  DistFrom(seen \cup next, next, k + 1, b, n, ws)

Dist(a, b, n, ws) == DistFrom({a}, {a}, 0, b, n, ws)

Reachable(a, b, n, ws) == Dist(a, b, n, ws) <= n * n

\* ------------------------------------------------------------------------
\* A single path query: the inputs are drawn, then bfs_first_step is applied.
\* ------------------------------------------------------------------------
WallSets(n) == {ws \in SUBSET Cells(n) : Cardinality(ws) <= MaxWalls}

InitBfs ==
    /\ size = BfsSize
    /\ walls \in WallSets(BfsSize)
    /\ bfs_start \in Cells(BfsSize) \ walls
    /\ bfs_target \in Cells(BfsSize)
    /\ bfs_step = None
    /\ pc = "query"
    /\ player_pos = None /\ ai_pos = None /\ ai2_pos = None /\ goal_pos = None
    /\ traps = {} /\ traps_left = 0 /\ this_game_moves = <<>>
    /\ ai_stunned = 0 /\ ai2_stunned = 0 /\ turn = 1 /\ successful_traps = 0
    /\ memory = <<>> /\ memfile = [ok |-> FALSE, games |-> <<>>]
    /\ result = "playing" /\ met = FALSE /\ ch = NoKey
    /\ model = <<>> /\ global_counts = [d \in DirLabels |-> 0]
    /\ combined = None /\ predicted = None

BfsQuery ==
    /\ pc = "query"
    /\ bfs_step' = bfs_first_step(bfs_start, bfs_target, size, walls)
    /\ pc' = "answered"
    /\ UNCHANGED <<size, walls, bfs_start, bfs_target>>
    /\ UNCHANGED gameVars
    /\ UNCHANGED predVars

NextBfs == BfsQuery

SpecBfs == InitBfs /\ [][NextBfs]_vars

\* ------------------------------------------------------------------------
\* The record store (ai_memory.json).  A file is [ok, games]: ok is FALSE for
\* a missing or unreadable file, games is the list under "games".
\* ------------------------------------------------------------------------
load_memory(file) == IF file.ok THEN file.games ELSE <<>>

\* Mutant: the record replaces the list instead of being appended to it.
save_game_Overwrite(file, moves, res, st, n) ==
    [ok |-> TRUE,
     games |-> <<[moves |-> moves, result |-> res, grid |-> n,
                  successful_traps |-> st]>>]

\* Mutant: a file that cannot be read is left as it is.
save_game_UnreadableStays(file, moves, res, st, n) ==
    IF file.ok
    THEN [ok |-> TRUE,
          games |-> Append(file.games,
                           [moves |-> moves, result |-> res, grid |-> n,
                            successful_traps |-> st])]
    ELSE file

\* The file as save_game leaves it: the list is read again, one record is
\* appended, the file is rewritten.
save_game(file, moves, res, st, n) ==
    [ok |-> TRUE,
     games |-> Append(load_memory(file),
                      [moves |-> moves, result |-> res, grid |-> n,
                       successful_traps |-> st])]

\* ------------------------------------------------------------------------
\* The prediction model.  A Counter is a function on the direction labels
\* (a key it does not hold counts 0); model is a function on the contexts it
\* holds.
\* ------------------------------------------------------------------------
NoCounts == [d \in DirLabels |-> 0]

\* Counter(seq)[m]
Occurrences(seq, m) == Cardinality({i \in DOMAIN seq : seq[i] = m})

\* model[ctx][m] += 1 on a defaultdict(Counter)
ModelAdd(mdl, ctx, m) ==
    IF ctx \in DOMAIN mdl
    THEN [mdl EXCEPT ![ctx] = [@ EXCEPT ![m] = @ + 1]]
    ELSE mdl @@ (ctx :> [NoCounts EXCEPT ![m] = 1])

\* The loop over k in 1 .. order for the move at position j (1-based) of seq;
\* it breaks at the first k with no window of k earlier moves.
RECURSIVE AddContexts(_, _, _, _, _)
AddContexts(seq, j, k, mdl, order) ==
    IF k > order \/ j - k < 1 THEN mdl
    ELSE AddContexts(seq, j, k + 1,
                     ModelAdd(mdl, SubSeq(seq, j - k, j - 1), seq[j]), order)

\* The loop over the positions of seq, from position j on.
RECURSIVE AddMoves(_, _, _, _)
AddMoves(seq, j, mdl, order) ==
    IF j > Len(seq) THEN mdl
    ELSE AddMoves(seq, j + 1, AddContexts(seq, j, 1, mdl, order), order)

\* The loop over the recorded games.
RECURSIVE BuildLoop(_, _, _, _)
BuildLoop(games, mdl, gc, order) ==
    IF games = <<>> THEN [model |-> mdl, global_counts |-> gc]
    ELSE LET seq == Head(games).moves
         IN  BuildLoop(Tail(games), AddMoves(seq, 1, mdl, order),
                       [d \in DirLabels |-> gc[d] + Occurrences(seq, d)], order)

\* build_markov_model(memory, order); games is memory["games"].
build_markov_model(games, order) == BuildLoop(games, <<>>, NoCounts, order)

\* this_game_moves[-k:]
LastMoves(moves, k) ==
    IF Len(moves) <= k THEN moves ELSE SubSeq(moves, Len(moves) - k + 1, Len(moves))

\* The loop over k from order down to 1: the counts of m under every trailing
\* context of the query that model holds, added up.
RECURSIVE ContextCounts(_, _, _, _)
ContextCounts(moves, mdl, k, m) ==
    IF k < 1 THEN 0
    ELSE (IF Len(moves) >= k /\ LastMoves(moves, k) \in DOMAIN mdl
          THEN mdl[LastMoves(moves, k)][m] ELSE 0)
         + ContextCounts(moves, mdl, k - 1, m)

\* Mutant: the recency term of the current session is left out.
Combined_NoRecency(moves, mdl, gc, order) ==
    [m \in DirLabels |->
        ScoreScale * ContextCounts(moves, mdl, order, m)
        + GLOBAL_WEIGHT * gc[m]
        + PREDICT_FUZZ]

\* The counter combined of predict_next_move before it samples, in hundredths.
Combined(moves, mdl, gc, order) ==
    [m \in DirLabels |->
        ScoreScale * ContextCounts(moves, mdl, order, m)
        + GLOBAL_WEIGHT * gc[m]
        + RECENCY_WEIGHT * Occurrences(LastMoves(moves, RECENT_MOVES), m)
        + PREDICT_FUZZ]

\* choose_from_counter: the keys it can return.  r ranges over [0, total), the
\* first key is returned for r = 0 and any other key only when its value is
\* positive; every value of combined is positive.
choose_from_counter(counter) == {m \in DOMAIN counter : counter[m] > 0}

\* ------------------------------------------------------------------------
\* Movement.
\* ------------------------------------------------------------------------
\* Mutant: the upper bound test is off by one.
try_move_OffByOne(pos, move_label, n, ws) ==
    LET np == Add(pos, move_label)
    IN  IF /\ 0 <= np[1] /\ np[1] < n - 1 /\ 0 <= np[2] /\ np[2] < n - 1
           /\ np \notin ws
        THEN np ELSE pos

\* Mutant: the WALL test of try_move is missing.
try_move_ThroughWalls(pos, move_label, n, ws) ==
    LET np == Add(pos, move_label)
    IN  IF in_bounds(np, n) THEN np ELSE pos

try_move(pos, move_label, n, ws) ==
    LET np == Add(pos, move_label)
    IN  IF in_bounds(np, n) /\ np \notin ws THEN np ELSE pos

\* The greedy loop over DIRS.items(), from the i-th direction on: best is
\* replaced by a legal candidate that is not the other adversary's cell and is
\* strictly nearer to target than best_d.
RECURSIVE BestCandidate(_, _, _, _, _, _, _, _)
BestCandidate(i, pos, target, other, best, best_d, n, ws) ==
    IF i > 4 THEN best
    ELSE LET cand == Add(pos, DirOrder[i])
             d == manhattan(cand, target)
         IN  IF in_bounds(cand, n) /\ cand \notin ws /\ cand # other /\ d < best_d
             THEN BestCandidate(i + 1, pos, target, other, cand, d, n, ws)
             ELSE BestCandidate(i + 1, pos, target, other, best, best_d, n, ws)

\* Mutant: the test for the other adversary's cell is missing.
RECURSIVE AiASteps_NoCollisionTest(_, _, _, _, _, _, _, _)
AiASteps_NoCollisionTest(k, pos, trs, player, goal, other, n, ws) ==
    IF k = 0 THEN [pos |-> pos, stunned |-> 0, traps |-> trs]
    ELSE LET path_step == bfs_first_step(player, goal, n, ws)
             intercept_target == IF path_step # None THEN path_step ELSE player
             found == bfs_first_step(pos, intercept_target, n, ws)
             step == IF found = None
                     THEN BestCandidate(1, pos, intercept_target, other, pos,
                                        BIG_DISTANCE, n, ws)
                     ELSE found
         IN  IF step \in trs
             THEN [pos |-> step, stunned |-> AI_STUN_TURNS, traps |-> trs \ {step}]
             ELSE AiASteps_NoCollisionTest(k - 1, step, trs, player, goal, other,
                                           n, ws)

\* Mutant: the adversary steers toward the player's cell, not the intercept target.
RECURSIVE AiASteps_ChasesPlayer(_, _, _, _, _, _, _, _)
AiASteps_ChasesPlayer(k, pos, trs, player, goal, other, n, ws) ==
    IF k = 0 THEN [pos |-> pos, stunned |-> 0, traps |-> trs]
    ELSE LET intercept_target == player
             found == bfs_first_step(pos, intercept_target, n, ws)
             step == IF found = None
                     THEN BestCandidate(1, pos, intercept_target, other, pos,
                                        BIG_DISTANCE, n, ws)
                     ELSE found
         IN  IF step = other
             THEN [pos |-> pos, stunned |-> 0, traps |-> trs]
             ELSE IF step \in trs
             THEN [pos |-> step, stunned |-> AI_STUN_TURNS, traps |-> trs \ {step}]
             ELSE AiASteps_ChasesPlayer(k - 1, step, trs, player, goal, other, n, ws)

\* Mutant: the fallback starts from the adversary's own distance to the target,
\* as the secondary adversary's greedy loop does.
RECURSIVE AiASteps_FallbackOnlyNearer(_, _, _, _, _, _, _, _)
AiASteps_FallbackOnlyNearer(k, pos, trs, player, goal, other, n, ws) ==
    IF k = 0 THEN [pos |-> pos, stunned |-> 0, traps |-> trs]
    ELSE LET path_step == bfs_first_step(player, goal, n, ws)
             intercept_target == IF path_step # None THEN path_step ELSE player
             found == bfs_first_step(pos, intercept_target, n, ws)
             step == IF found = None
                     THEN BestCandidate(1, pos, intercept_target, other, pos,
                                        manhattan(pos, intercept_target), n, ws)
                     ELSE found
         IN  IF step = other
             THEN [pos |-> pos, stunned |-> 0, traps |-> trs]
             ELSE IF step \in trs
             THEN [pos |-> step, stunned |-> AI_STUN_TURNS, traps |-> trs \ {step}]
             ELSE AiASteps_FallbackOnlyNearer(k - 1, step, trs, player, goal,
                                              other, n, ws)

\* The for-loop of ai_a_turn with k steps left.
RECURSIVE AiASteps(_, _, _, _, _, _, _, _)
AiASteps(k, pos, trs, player, goal, other, n, ws) ==
    IF k = 0 THEN [pos |-> pos, stunned |-> 0, traps |-> trs]
    ELSE LET path_step == bfs_first_step(player, goal, n, ws)
             intercept_target == IF path_step # None THEN path_step ELSE player
             found == bfs_first_step(pos, intercept_target, n, ws)
             step == IF found = None
                     THEN BestCandidate(1, pos, intercept_target, other, pos,
                                        BIG_DISTANCE, n, ws)
                     ELSE found
         IN  IF step = other
             THEN [pos |-> pos, stunned |-> 0, traps |-> trs]
             ELSE IF step \in trs
             THEN [pos |-> step, stunned |-> AI_STUN_TURNS, traps |-> trs \ {step}]
             ELSE AiASteps(k - 1, step, trs, player, goal, other, n, ws)

\* Mutant: the adversary acts again while its counter is still 1.
ai_a_turn_WakesEarly(pos, player, n, ws, trs, this_moves, mdl, gc, stunned, goal, other) ==
    IF stunned > 1
    THEN [pos |-> pos, stunned |-> stunned - 1, traps |-> trs]
    ELSE AiASteps(IF manhattan(pos, player) > CLOSE_RANGE + 2 THEN 2 ELSE 1,
                  pos, trs, player, goal, other, n, ws)

\* Mutant: the adversary takes two steps whenever the model or the moves of the
\* session so far hold anything.
ai_a_turn_ReadsModel(pos, player, n, ws, trs, this_moves, mdl, gc, stunned, goal, other) ==
    IF stunned > 0
    THEN [pos |-> pos, stunned |-> stunned - 1, traps |-> trs]
    ELSE AiASteps(IF \/ manhattan(pos, player) > CLOSE_RANGE + 2
                     \/ DOMAIN mdl # {}
                     \/ this_moves # <<>>
                  THEN 2 ELSE 1,
                  pos, trs, player, goal, other, n, ws)

\* ai_a_turn: the new position, the new stun counter and the trap set it leaves.
\* The parameters this_moves, model and global_counts are passed by main() and
\* read nowhere in the body.
ai_a_turn(pos, player, n, ws, trs, this_moves, mdl, gc, stunned, goal, other) ==
    IF stunned > 0
    THEN [pos |-> pos, stunned |-> stunned - 1, traps |-> trs]
    ELSE AiASteps(IF manhattan(pos, player) > CLOSE_RANGE + 2 THEN 2 ELSE 1,
                  pos, trs, player, goal, other, n, ws)

\* Mutant: the trap stepped on stays armed.
RECURSIVE AiBSteps_TrapStays(_, _, _, _, _, _, _)
AiBSteps_TrapStays(k, pos, trs, player, other, n, ws) ==
    IF k = 0 THEN [pos |-> pos, stunned |-> 0, traps |-> trs]
    ELSE LET best == BestCandidate(1, pos, player, other, pos,
                                   manhattan(pos, player), n, ws)
         IN  IF best = other
             THEN [pos |-> pos, stunned |-> 0, traps |-> trs]
             ELSE IF best \in trs
             THEN [pos |-> best, stunned |-> AI_STUN_TURNS, traps |-> trs]
             ELSE AiBSteps_TrapStays(k - 1, best, trs, player, other, n, ws)

\* The for-loop of ai_b_turn with k steps left.
RECURSIVE AiBSteps(_, _, _, _, _, _, _)
AiBSteps(k, pos, trs, player, other, n, ws) ==
    IF k = 0 THEN [pos |-> pos, stunned |-> 0, traps |-> trs]
    ELSE LET best == BestCandidate(1, pos, player, other, pos,
                                   manhattan(pos, player), n, ws)
         IN  IF best = other
             THEN [pos |-> pos, stunned |-> 0, traps |-> trs]
             ELSE IF best \in trs
             THEN [pos |-> best, stunned |-> AI_STUN_TURNS, traps |-> trs \ {best}]
             ELSE AiBSteps(k - 1, best, trs, player, other, n, ws)

\* Mutant: the budget is evaluated again after the first step.
ai_b_turn_BudgetPerStep(pos, player, n, ws, trs, stunned, other) ==
    IF stunned > 0
    THEN [pos |-> pos, stunned |-> stunned - 1, traps |-> trs]
    ELSE LET first == AiBSteps(1, pos, trs, player, other, n, ws)
         IN  IF /\ manhattan(pos, player) > CLOSE_RANGE + 2
                /\ manhattan(first.pos, player) > CLOSE_RANGE + 2
                /\ first.stunned = 0
             THEN AiBSteps(1, first.pos, first.traps, player, other, n, ws)
             ELSE first

ai_b_turn(pos, player, n, ws, trs, stunned, other) ==
    IF stunned > 0
    THEN [pos |-> pos, stunned |-> stunned - 1, traps |-> trs]
    ELSE AiBSteps(IF manhattan(pos, player) > CLOSE_RANGE + 2 THEN 2 ELSE 1,
                  pos, trs, player, other, n, ws)

\* The for-loop of the single adversary's ai_turn (grid-game-v3) with k steps left.
RECURSIVE AiSteps(_, _, _, _, _, _, _)
AiSteps(k, pos, trs, player, goal, n, ws) ==
    IF k = 0 THEN [pos |-> pos, stunned |-> 0, traps |-> trs]
    ELSE LET path_step == bfs_first_step(player, goal, n, ws)
             intercept_target == IF path_step # None THEN path_step ELSE player
             found == bfs_first_step(pos, intercept_target, n, ws)
             step == IF found = None
                     THEN BestCandidate(1, pos, intercept_target, None, pos,
                                        BIG_DISTANCE, n, ws)
                     ELSE found
         IN  IF step \in trs
             THEN [pos |-> step, stunned |-> AI_STUN_TURNS, traps |-> trs \ {step}]
             ELSE AiSteps(k - 1, step, trs, player, goal, n, ws)

ai_turn(pos, player, n, ws, trs, stunned, goal) ==
    IF stunned > 0
    THEN [pos |-> pos, stunned |-> stunned - 1, traps |-> trs]
    ELSE AiSteps(IF manhattan(pos, player) > CLOSE_RANGE + 2 THEN 2 ELSE 1,
                 pos, trs, player, goal, n, ws)

\* ------------------------------------------------------------------------
\* main(): one turn of the loop, in the order of the code.  pc = "input" is
\* the turn boundary, where a key is awaited.
\* ------------------------------------------------------------------------
Adversaries == {ai_pos, ai2_pos}

\* Mutant: the win check is missing, the adversaries move first.
WinCheck_Missing(pp, moves) ==
    /\ met' = (pp \in Adversaries)
    /\ UNCHANGED <<memfile, result>>
    /\ pc' = "aiA"

\* The win check that follows the handling of a key other than q; pp and moves
\* are the player's position and move list after the key.
WinCheck(pp, moves) ==
    /\ met' = (pp \in Adversaries)
    /\ IF pp = goal_pos
       THEN /\ memfile' = save_game(memfile, moves, "win", successful_traps, size)
            /\ result' = "win"
            /\ pc' = "done"
       ELSE /\ UNCHANGED <<memfile, result>>
            /\ pc' = "aiA"

\* Mutant: the return after save_game is missing, the turn goes on.
KeyQuit_NoReturn ==
    /\ pc = "input" /\ turn <= MaxTurn
    /\ ch' = "q"
    /\ memfile' = save_game(memfile, this_game_moves, "quit", successful_traps, size)
    /\ pc' = "aiA"
    /\ met' = FALSE
    /\ UNCHANGED <<size, walls, player_pos, ai_pos, ai2_pos, goal_pos, traps,
                   traps_left, this_game_moves, ai_stunned, ai2_stunned, turn,
                   successful_traps, memory, result>>
    /\ UNCHANGED bfsVars
    /\ UNCHANGED predVars

KeyQuit ==
    /\ pc = "input" /\ turn <= MaxTurn
    /\ ch' = "q"
    /\ memfile' = save_game(memfile, this_game_moves, "quit", successful_traps, size)
    /\ result' = "quit"
    /\ pc' = "done"
    /\ met' = FALSE
    /\ UNCHANGED <<size, walls, player_pos, ai_pos, ai2_pos, goal_pos, traps,
                   traps_left, this_game_moves, ai_stunned, ai2_stunned, turn,
                   successful_traps, memory>>
    /\ UNCHANGED bfsVars
    /\ UNCHANGED predVars

\* Mutant: the budget is not tested before a trap is armed.
KeyTrap_NoBudgetTest ==
    /\ pc = "input" /\ turn <= MaxTurn
    /\ ch' = "t"
    /\ IF player_pos \notin traps
       THEN /\ traps' = traps \cup {player_pos}
            /\ traps_left' = traps_left - 1
       ELSE UNCHANGED <<traps, traps_left>>
    /\ WinCheck(player_pos, this_game_moves)
    /\ UNCHANGED <<size, walls, player_pos, ai_pos, ai2_pos, goal_pos,
                   this_game_moves, ai_stunned, ai2_stunned, turn,
                   successful_traps, memory>>
    /\ UNCHANGED bfsVars
    /\ UNCHANGED predVars

KeyTrap ==
    /\ pc = "input" /\ turn <= MaxTurn
    /\ ch' = "t"
    /\ IF traps_left > 0 /\ player_pos \notin traps
       THEN /\ traps' = traps \cup {player_pos}
            /\ traps_left' = traps_left - 1
       ELSE UNCHANGED <<traps, traps_left>>
    /\ WinCheck(player_pos, this_game_moves)
    /\ UNCHANGED <<size, walls, player_pos, ai_pos, ai2_pos, goal_pos,
                   this_game_moves, ai_stunned, ai2_stunned, turn,
                   successful_traps, memory>>
    /\ UNCHANGED bfsVars
    /\ UNCHANGED predVars

\* Mutant: the label is appended whether or not the player moved.
KeyMove_AppendsBlocked(move_label) ==
    /\ pc = "input" /\ turn <= MaxTurn
    /\ ch' = move_label
    /\ LET new_pos == try_move(player_pos, move_label, size, walls)
       IN  /\ player_pos' = new_pos
           /\ this_game_moves' = Append(this_game_moves, move_label)
           /\ WinCheck(new_pos, Append(this_game_moves, move_label))
    /\ UNCHANGED <<size, walls, ai_pos, ai2_pos, goal_pos, traps, traps_left,
                   ai_stunned, ai2_stunned, turn, successful_traps, memory>>
    /\ UNCHANGED bfsVars
    /\ UNCHANGED predVars

KeyMove(move_label) ==
    /\ pc = "input" /\ turn <= MaxTurn
    /\ ch' = move_label
    /\ LET new_pos == try_move(player_pos, move_label, size, walls)
       IN  IF new_pos # player_pos
           THEN /\ player_pos' = new_pos
                /\ this_game_moves' = Append(this_game_moves, move_label)
                /\ WinCheck(new_pos, Append(this_game_moves, move_label))
           ELSE /\ UNCHANGED <<player_pos, this_game_moves>>
                /\ WinCheck(player_pos, this_game_moves)
    /\ UNCHANGED <<size, walls, ai_pos, ai2_pos, goal_pos, traps, traps_left,
                   ai_stunned, ai2_stunned, turn, successful_traps, memory>>
    /\ UNCHANGED bfsVars
    /\ UNCHANGED predVars

\* Any other key.
KeyOther ==
    /\ pc = "input" /\ turn <= MaxTurn
    /\ ch' = "other"
    /\ WinCheck(player_pos, this_game_moves)
    /\ UNCHANGED <<size, walls, player_pos, ai_pos, ai2_pos, goal_pos, traps,
                   traps_left, this_game_moves, ai_stunned, ai2_stunned, turn,
                   successful_traps, memory>>
    /\ UNCHANGED bfsVars
    /\ UNCHANGED predVars

\* Mutant: every turn that leaves the adversary stunned is counted.
AiATurn_CountsStunnedTurns ==
    /\ pc = "aiA"
    /\ \E r \in {ai_a_turn(ai_pos, player_pos, size, walls, traps,
                             this_game_moves, model, global_counts, ai_stunned,
                             goal_pos, ai2_pos)} :
           /\ ai_pos' = r.pos
           /\ ai_stunned' = r.stunned
           /\ traps' = r.traps
           /\ successful_traps' = IF r.stunned > 0
                                  THEN successful_traps + 1
                                  ELSE successful_traps
           /\ met' = (met \/ r.pos = player_pos)
    /\ pc' = "aiB"
    /\ UNCHANGED <<size, walls, player_pos, ai2_pos, goal_pos, traps_left,
                   this_game_moves, ai2_stunned, turn, memory, memfile, ch, result>>
    /\ UNCHANGED bfsVars
    /\ UNCHANGED predVars

AiATurn ==
    /\ pc = "aiA"
    /\ \E r \in {ai_a_turn(ai_pos, player_pos, size, walls, traps,
                             this_game_moves, model, global_counts, ai_stunned,
                             goal_pos, ai2_pos)} :
           /\ ai_pos' = r.pos
           /\ ai_stunned' = r.stunned
           /\ traps' = r.traps
           /\ successful_traps' = IF r.stunned > 0 /\ ai_stunned = 0
                                  THEN successful_traps + 1
                                  ELSE successful_traps
           /\ met' = (met \/ r.pos = player_pos)
    /\ pc' = "aiB"
    /\ UNCHANGED <<size, walls, player_pos, ai2_pos, goal_pos, traps_left,
                   this_game_moves, ai2_stunned, turn, memory, memfile, ch, result>>
    /\ UNCHANGED bfsVars
    /\ UNCHANGED predVars

\* Mutant: a stun of the secondary adversary is not counted.
AiBTurn_StunNotCounted ==
    /\ pc = "aiB"
    /\ \E r \in {ai_b_turn(ai2_pos, player_pos, size, walls, traps, ai2_stunned,
                             ai_pos)} :
           /\ ai2_pos' = r.pos
           /\ ai2_stunned' = r.stunned
           /\ traps' = r.traps
           /\ successful_traps' = successful_traps
           /\ met' = (met \/ r.pos = player_pos)
    /\ pc' = "check"
    /\ UNCHANGED <<size, walls, player_pos, ai_pos, goal_pos, traps_left,
                   this_game_moves, ai_stunned, turn, memory, memfile, ch, result>>
    /\ UNCHANGED bfsVars
    /\ UNCHANGED predVars

AiBTurn ==
    /\ pc = "aiB"
    /\ \E r \in {ai_b_turn(ai2_pos, player_pos, size, walls, traps, ai2_stunned,
                             ai_pos)} :
           /\ ai2_pos' = r.pos
           /\ ai2_stunned' = r.stunned
           /\ traps' = r.traps
           /\ successful_traps' = IF r.stunned > 0 /\ ai2_stunned = 0
                                  THEN successful_traps + 1
                                  ELSE successful_traps
           /\ met' = (met \/ r.pos = player_pos)
    /\ pc' = "check"
    /\ UNCHANGED <<size, walls, player_pos, ai_pos, goal_pos, traps_left,
                   this_game_moves, ai_stunned, turn, memory, memfile, ch, result>>
    /\ UNCHANGED bfsVars
    /\ UNCHANGED predVars

\* Mutant: only the primary adversary is tested.
LoseCheck_OnlyA ==
    /\ pc = "check"
    /\ IF ai_pos = player_pos
       THEN /\ memfile' = save_game(memfile, this_game_moves, "loss",
                                    successful_traps, size)
            /\ result' = "loss"
            /\ pc' = "done"
            /\ UNCHANGED <<turn, ch>>
       ELSE /\ turn' = turn + 1
            /\ pc' = "input"
            /\ ch' = NoKey
            /\ UNCHANGED <<memfile, result>>
    /\ UNCHANGED <<size, walls, player_pos, ai_pos, ai2_pos, goal_pos, traps,
                   traps_left, this_game_moves, ai_stunned, ai2_stunned,
                   successful_traps, memory, met>>
    /\ UNCHANGED bfsVars
    /\ UNCHANGED predVars

LoseCheck ==
    /\ pc = "check"
    /\ IF ai_pos = player_pos \/ ai2_pos = player_pos
       THEN /\ memfile' = save_game(memfile, this_game_moves, "loss",
                                    successful_traps, size)
            /\ result' = "loss"
            /\ pc' = "done"
            /\ UNCHANGED <<turn, ch>>
       ELSE /\ turn' = turn + 1
            /\ pc' = "input"
            /\ ch' = NoKey
            /\ UNCHANGED <<memfile, result>>
    /\ UNCHANGED <<size, walls, player_pos, ai_pos, ai2_pos, goal_pos, traps,
                   traps_left, this_game_moves, ai_stunned, ai2_stunned,
                   successful_traps, memory, met>>
    /\ UNCHANGED bfsVars
    /\ UNCHANGED predVars

\* The single-adversary game (grid-game-v3): its adversary's turn and lose check.
AiTurnV3 ==
    /\ pc = "aiA"
    /\ \E r \in {ai_turn(ai_pos, player_pos, size, walls, traps, ai_stunned,
                           goal_pos)} :
           /\ ai_pos' = r.pos
           /\ ai_stunned' = r.stunned
           /\ traps' = r.traps
           /\ met' = (met \/ r.pos = player_pos)
    /\ pc' = "check"
    /\ UNCHANGED <<size, walls, player_pos, ai2_pos, goal_pos, traps_left,
                   this_game_moves, ai2_stunned, turn, successful_traps, memory,
                   memfile, ch, result>>
    /\ UNCHANGED bfsVars
    /\ UNCHANGED predVars

LoseCheckV3 ==
    /\ pc = "check"
    /\ IF ai_pos = player_pos
       THEN /\ memfile' = save_game(memfile, this_game_moves, "loss",
                                    successful_traps, size)
            /\ result' = "loss"
            /\ pc' = "done"
            /\ UNCHANGED <<turn, ch>>
       ELSE /\ turn' = turn + 1
            /\ pc' = "input"
            /\ ch' = NoKey
            /\ UNCHANGED <<memfile, result>>
    /\ UNCHANGED <<size, walls, player_pos, ai_pos, ai2_pos, goal_pos, traps,
                   traps_left, this_game_moves, ai_stunned, ai2_stunned,
                   successful_traps, memory, met>>
    /\ UNCHANGED bfsVars
    /\ UNCHANGED predVars

\* ------------------------------------------------------------------------
\* Session start.
\* ------------------------------------------------------------------------
\* A record of an earlier session.
OldGame == [moves |-> <<"east", "east", "south">>, result |-> "loss",
            grid |-> GameSize, successful_traps |-> 0]

\* ai_memory.json before the session: missing or unreadable, or one record.
InitialFiles == {[ok |-> FALSE, games |-> <<>>], [ok |-> TRUE, games |-> <<OldGame>>]}

\* The state main() sets up before its loop, from the file, the grid and the
\* placement.
SessionStart(file, n, ws, p, a, b, g) ==
    /\ memfile = file
    /\ memory = load_memory(file)
    /\ size = n /\ walls = ws
    /\ player_pos = p /\ ai_pos = a /\ ai2_pos = b /\ goal_pos = g
    /\ traps = {} /\ traps_left = NUM_TRAPS
    /\ this_game_moves = <<>>
    /\ ai_stunned = 0 /\ ai2_stunned = 0
    /\ turn = 1 /\ successful_traps = 0
    /\ pc = "input" /\ ch = NoKey /\ result = "playing" /\ met = FALSE
    /\ bfs_start = None /\ bfs_target = None /\ bfs_step = None
    /\ model = build_markov_model(load_memory(file), MARKOV_ORDER).model
    /\ global_counts = build_markov_model(load_memory(file), MARKOV_ORDER).global_counts
    /\ combined = None /\ predicted = None

\* The grids and placements the sessions start from.
Pocket == {<<2, 2>>, <<2, 3>>, <<3, 1>>}    \* walls that close off (3,2) and (3,3)
Barrier == {<<1, 0>>, <<1, 1>>, <<1, 2>>}   \* a wall across row 1, open at (1,3)

Starts == {
    [walls |-> {}, player |-> <<1, 1>>, ai |-> <<1, 0>>, ai2 |-> <<3, 3>>,
     goal |-> <<0, 3>>],
    [walls |-> {}, player |-> <<0, 1>>, ai |-> <<3, 0>>, ai2 |-> <<2, 0>>,
     goal |-> <<0, 3>>],
    [walls |-> {}, player |-> <<1, 2>>, ai |-> <<3, 0>>, ai2 |-> <<1, 0>>,
     goal |-> <<3, 3>>],
    [walls |-> {}, player |-> <<0, 0>>, ai |-> <<3, 3>>, ai2 |-> <<3, 0>>,
     goal |-> <<0, 3>>],
    [walls |-> Pocket, player |-> <<0, 0>>, ai |-> <<3, 3>>, ai2 |-> <<1, 3>>,
     goal |-> <<0, 2>>],
    [walls |-> Pocket, player |-> <<1, 1>>, ai |-> <<0, 0>>, ai2 |-> <<0, 3>>,
     goal |-> <<3, 3>>],
    [walls |-> Barrier, player |-> <<0, 1>>, ai |-> <<2, 2>>, ai2 |-> <<2, 3>>,
     goal |-> <<0, 0>>],
    [walls |-> {}, player |-> <<2, 2>>, ai |-> <<0, 2>>, ai2 |-> <<0, 1>>,
     goal |-> <<3, 0>>],
    [walls |-> Barrier, player |-> <<0, 0>>, ai |-> <<3, 2>>, ai2 |-> <<3, 3>>,
     goal |-> <<0, 3>>]
}

\* place_entities: four EMPTY cells, pairwise distinct.
Placed(n, ws, p, a, b, g) ==
    /\ {p, a, b, g} \subseteq Cells(n) \ ws
    /\ Cardinality({p, a, b, g}) = 4

Init ==
    \E file \in InitialFiles, st \in Starts :
        /\ Placed(GameSize, st.walls, st.player, st.ai, st.ai2, st.goal)
        /\ SessionStart(file, GameSize, st.walls, st.player, st.ai, st.ai2, st.goal)

Next ==
    \/ KeyQuit
    \/ KeyTrap
    \/ \E d \in {"north", "south", "west", "east"} : KeyMove(d)
    \/ KeyOther
    \/ AiATurn
    \/ AiBTurn
    \/ LoseCheck

Spec == Init /\ [][Next]_vars

\* The single-adversary session of grid-game-v3 on the open 5 x 5 grid: player
\* at (0,0), adversary at (4,4), goal at (0,4).
InitV3 ==
    SessionStart([ok |-> TRUE, games |-> <<>>], 5, {}, <<0, 0>>, <<4, 4>>, None,
                 <<0, 4>>)

NextV3 ==
    \/ KeyQuit
    \/ KeyTrap
    \/ \E d \in {"north", "south", "west", "east"} : KeyMove(d)
    \/ KeyOther
    \/ AiTurnV3
    \/ LoseCheckV3

SpecV3 == InitV3 /\ [][NextV3]_vars

\* ------------------------------------------------------------------------
\* A single prediction query: a history and the moves of the current session
\* are drawn, the model is built from the history, predict_next_move is applied.
\* ------------------------------------------------------------------------
\* Move lists of at most k moves.
MoveLists(k) == UNION {[1 .. l -> DirLabels] : l \in 0 .. k}

\* Move lists longer than the recency window: one move and then the window
\* filled with another.
LongMoveLists ==
    {<<d>> \o [i \in 1 .. RECENT_MOVES |-> e] : d \in DirLabels, e \in DirLabels}

WonGame == [moves |-> <<"north", "east", "east", "south", "east">>, result |-> "win",
            grid |-> GameSize, successful_traps |-> 1]

\* memory["games"] of the query: nothing recorded, one game, two games.
Histories == {<<>>, <<OldGame>>, <<OldGame, WonGame>>}

InitPredict ==
    /\ memory \in Histories
    /\ memfile = [ok |-> TRUE, games |-> memory]
    /\ model = build_markov_model(memory, MARKOV_ORDER).model
    /\ global_counts = build_markov_model(memory, MARKOV_ORDER).global_counts
    /\ this_game_moves \in MoveLists(MaxQuery) \cup LongMoveLists
    /\ combined = None /\ predicted = None
    /\ pc = "predict"
    /\ size = GameSize /\ walls = {}
    /\ player_pos = None /\ ai_pos = None /\ ai2_pos = None /\ goal_pos = None
    /\ traps = {} /\ traps_left = 0
    /\ ai_stunned = 0 /\ ai2_stunned = 0 /\ turn = 1 /\ successful_traps = 0
    /\ result = "playing" /\ met = FALSE /\ ch = NoKey
    /\ bfs_start = None /\ bfs_target = None /\ bfs_step = None

PredictQuery ==
    /\ pc = "predict"
    /\ combined' = Combined(this_game_moves, model, global_counts, MARKOV_ORDER)
    /\ predicted' \in choose_from_counter(combined')
    /\ pc' = "predicted"
    /\ UNCHANGED <<model, global_counts, size, walls>>
    /\ UNCHANGED gameVars
    /\ UNCHANGED bfsVars

NextPredict == PredictQuery

SpecPredict == InitPredict /\ [][NextPredict]_vars

\* ------------------------------------------------------------------------
\* A single round of the adversaries: the state main() is in after a key is
\* drawn, then ai_a_turn and ai_b_turn (or the single adversary's ai_turn) are
\* applied.  No adversary is stunned.
\* ------------------------------------------------------------------------
Corners(n) == {<<0, 0>>, <<0, n - 1>>, <<n - 1, 0>>, <<n - 1, n - 1>>}

\* The grids of a round: open, or with the walls of Pocket.
TurnWalls == {{}, Pocket}

\* The armed traps of a round.
TurnTraps == {{}, {<<1, 1>>}, {<<1, 2>>, <<2, 1>>}}

InitTurn ==
    /\ size = GameSize
    /\ walls \in TurnWalls
    /\ player_pos \in Cells(size) \ walls
    /\ goal_pos \in Corners(size) \ (walls \cup {player_pos})
    /\ ai_pos \in Cells(size) \ walls
    /\ ai2_pos \in Cells(size) \ (walls \cup {ai_pos})
    /\ manhattan(ai_pos, ai2_pos) <= 2
    /\ traps \in TurnTraps
    /\ traps \cap (walls \cup {ai_pos, ai2_pos, goal_pos}) = {}
    /\ traps_left = NUM_TRAPS - Cardinality(traps)
    /\ traps_left >= 0
    /\ ai_stunned = 0 /\ ai2_stunned = 0
    /\ this_game_moves = <<>> /\ turn = 1 /\ successful_traps = 0
    /\ memfile = [ok |-> FALSE, games |-> <<>>] /\ memory = <<>>
    /\ model = <<>> /\ global_counts = [d \in DirLabels |-> 0]
    /\ combined = None /\ predicted = None
    /\ pc = "aiA" /\ ch = "other" /\ result = "playing"
    /\ met = (player_pos \in {ai_pos, ai2_pos})
    /\ bfs_start = None /\ bfs_target = None /\ bfs_step = None

NextTurn ==
    \/ AiATurn
    \/ AiBTurn
    \/ AiTurnV3

SpecTurn == InitTurn /\ [][NextTurn]_vars

\* ------------------------------------------------------------------------
\* place_entities on a drawn grid: every call of random_empty_cell is a step,
\* its result any EMPTY cell of the grid.
\* ------------------------------------------------------------------------
\* The cells random_empty_cell can return.
random_empty_cell(n, ws) == Cells(n) \ ws

\* Mutant: the test of the while-loop leaves out the pair of adversaries.
Overlap_ForgetsAdversaries(p, a, b, g) ==
    a = p \/ b = p \/ g = p \/ g = a \/ g = b

\* The test of the while-loop of place_entities.
Overlap(p, a, b, g) ==
    a = p \/ b = p \/ g = p \/ g = a \/ g = b \/ a = b

\* The EMPTY cells of the grids drawn: a block of four, a block of six.
Block4 == {<<0, 0>>, <<0, 1>>, <<1, 0>>, <<1, 1>>}
Block6 == Block4 \cup {<<0, 2>>, <<1, 2>>}

\* The grids place_entities is explored on: without walls, with one wall, and
\* with walls everywhere but on a block of cells.
PlaceGrids(n) ==
    {{}, {<<1, 1>>}, Cells(n) \ Block4, Cells(n) \ Block6}

InitPlace ==
    /\ size = PlaceSize
    /\ walls \in PlaceGrids(PlaceSize)
    /\ player_pos = None /\ ai_pos = None /\ ai2_pos = None /\ goal_pos = None
    /\ traps = {} /\ traps_left = NUM_TRAPS /\ this_game_moves = <<>>
    /\ ai_stunned = 0 /\ ai2_stunned = 0 /\ turn = 1 /\ successful_traps = 0
    /\ memory = <<>> /\ memfile = [ok |-> FALSE, games |-> <<>>]
    /\ result = "playing" /\ met = FALSE /\ ch = NoKey
    /\ model = <<>> /\ global_counts = [d \in DirLabels |-> 0]
    /\ combined = None /\ predicted = None
    /\ bfs_start = None /\ bfs_target = None /\ bfs_step = None
    /\ pc = "player"

placeRest == <<size, walls, traps, traps_left, this_game_moves, ai_stunned,
               ai2_stunned, turn, successful_traps, memory, memfile, ch, result,
               met>>

\* player_pos = random_empty_cell(grid)
SamplePlayer ==
    /\ pc = "player"
    /\ player_pos' \in random_empty_cell(size, walls)
    /\ pc' = "ai"
    /\ UNCHANGED <<ai_pos, ai2_pos, goal_pos>>
    /\ UNCHANGED placeRest
    /\ UNCHANGED bfsVars
    /\ UNCHANGED predVars

\* ai_pos = random_empty_cell(grid), before the loop and in its body.
SampleAi ==
    /\ pc = "ai"
    /\ ai_pos' \in random_empty_cell(size, walls)
    /\ pc' = "ai2"
    /\ UNCHANGED <<player_pos, ai2_pos, goal_pos>>
    /\ UNCHANGED placeRest
    /\ UNCHANGED bfsVars
    /\ UNCHANGED predVars

\* ai2_pos = random_empty_cell(grid), before the loop and in its body.
SampleAi2 ==
    /\ pc = "ai2"
    /\ ai2_pos' \in random_empty_cell(size, walls)
    /\ pc' = "goal"
    /\ UNCHANGED <<player_pos, ai_pos, goal_pos>>
    /\ UNCHANGED placeRest
    /\ UNCHANGED bfsVars
    /\ UNCHANGED predVars

\* goal_pos = random_empty_cell(grid), before the loop and in its body.
SampleGoal ==
    /\ pc = "goal"
    /\ goal_pos' \in random_empty_cell(size, walls)
    /\ pc' = "test"
    /\ UNCHANGED <<player_pos, ai_pos, ai2_pos>>
    /\ UNCHANGED placeRest
    /\ UNCHANGED bfsVars
    /\ UNCHANGED predVars

\* The test of the while-loop: another round of the three draws, or the return.
PlaceTest ==
    /\ pc = "test"
    /\ pc' = IF Overlap(player_pos, ai_pos, ai2_pos, goal_pos) THEN "ai" ELSE "placed"
    /\ UNCHANGED <<player_pos, ai_pos, ai2_pos, goal_pos>>
    /\ UNCHANGED placeRest
    /\ UNCHANGED bfsVars
    /\ UNCHANGED predVars

NextPlace ==
    \/ SamplePlayer
    \/ SampleAi
    \/ SampleAi2
    \/ SampleGoal
    \/ PlaceTest

SpecPlace == InitPlace /\ [][NextPlace]_vars

\* ------------------------------------------------------------------------
\* Properties of bfs_first_step (checked under SpecBfs).
\* ------------------------------------------------------------------------
\* C1: when target is reachable from start, bfs_first_step returns start itself
\* if start = target, and otherwise an in-bounds non-WALL cell adjacent to start
\* whose shortest-path distance to target is one less than that of start.
C1_FirstStepOnShortestPath ==
    (pc = "answered" /\ Reachable(bfs_start, bfs_target, size, walls)) =>
        IF bfs_start = bfs_target
        THEN bfs_step = bfs_start
        ELSE /\ bfs_step \in Cells(size) \ walls
             /\ Adjacent(bfs_start, bfs_step)
             /\ Dist(bfs_step, bfs_target, size, walls)
                    = Dist(bfs_start, bfs_target, size, walls) - 1

\* A query answered with a first step of a path that has to go around walls.
C1_Witness ==
    /\ pc = "answered"
    /\ bfs_start # bfs_target
    /\ Reachable(bfs_start, bfs_target, size, walls)
    /\ Dist(bfs_start, bfs_target, size, walls) > manhattan(bfs_start, bfs_target)
    /\ bfs_step # None

\* C2: when start # target and target is not connected to start (a WALL target
\* included), bfs_first_step returns none.
C2_UnreachableGivesNone ==
    (/\ pc = "answered"
     /\ bfs_start # bfs_target
     /\ ~Reachable(bfs_start, bfs_target, size, walls)) => bfs_step = None

\* An EMPTY target walled off from start, answered none.
C2_Witness ==
    /\ pc = "answered"
    /\ bfs_target \notin walls
    /\ ~Reachable(bfs_start, bfs_target, size, walls)
    /\ bfs_step = None

\* A WALL target, answered none.
C2_WitnessWallTarget ==
    /\ pc = "answered"
    /\ bfs_target \in walls
    /\ bfs_step = None

\* ------------------------------------------------------------------------
\* Properties of the sessions (checked under Spec, C6 under SpecV3).
\* ------------------------------------------------------------------------
Terminal == {"win", "loss", "quit"}

LastGame == memfile.games[Len(memfile.games)]

\* C3: a finished session has appended exactly one record, whose result is the
\* terminal state and whose moves are the move history; before the end the store
\* is as it was read; nothing is processed after the end.
C3_OneRecordPerSession ==
    /\ [](pc = "done" =>
            /\ result \in Terminal
            /\ memfile.ok
            /\ Len(memfile.games) = Len(memory) + 1
            /\ SubSeq(memfile.games, 1, Len(memory)) = memory
            /\ LastGame.result = result
            /\ LastGame.moves = this_game_moves)
    /\ [](pc # "done" => result = "playing" /\ load_memory(memfile) = memory)
    /\ [][pc = "done" => UNCHANGED vars]_vars

\* A session lost after some moves, with an earlier record in the store.
C3_Witness ==
    /\ pc = "done" /\ result = "loss"
    /\ Len(memory) = 1 /\ Len(memfile.games) = 2
    /\ Len(this_game_moves) >= 2

C3_WitnessWin == pc = "done" /\ result = "win" /\ Len(memfile.games) = 2

C3_WitnessQuit ==
    pc = "done" /\ result = "quit" /\ ~(memory # <<>>) /\ this_game_moves # <<>>

\* C4: the two adversaries are never on the same cell, neither at a turn
\* boundary nor after the turn of either of them.
C4_AdversariesApart == (pc # "query" /\ pc # "answered") => ai_pos # ai2_pos

\* After both turns: A, not stunned, stands where its path step would be B's cell.
C4_Witness ==
    /\ pc = "check" /\ ch # NoKey
    /\ ai_stunned = 0
    /\ LET path_step == bfs_first_step(player_pos, goal_pos, size, walls)
           target == IF path_step # None THEN path_step ELSE player_pos
       IN  bfs_first_step(ai_pos, target, size, walls) = ai2_pos

\* After B's turn: B, not stunned, stands where its nearest candidate would be A's cell.
C4_WitnessB ==
    /\ pc = "check"
    /\ ai2_stunned = 0
    /\ BestCandidate(1, ai2_pos, player_pos, None, ai2_pos,
                     manhattan(ai2_pos, player_pos), size, walls) = ai_pos

\* C5: an adversary is stunned only by stepping onto an armed trap, which that
\* step removes, so a trap stuns one adversary at most; the stun events never
\* outnumber the traps placed.
C5_TrapStunsOnce ==
    /\ [][(ai_stunned = 0 /\ ai_stunned' > 0) =>
            /\ ai_pos' \in traps
            /\ traps' = traps \ {ai_pos'}
            /\ ai_stunned' = AI_STUN_TURNS
            /\ UNCHANGED ai2_stunned]_vars
    /\ [][(ai2_stunned = 0 /\ ai2_stunned' > 0) =>
            /\ ai2_pos' \in traps
            /\ traps' = traps \ {ai2_pos'}
            /\ ai2_stunned' = AI_STUN_TURNS
            /\ UNCHANGED ai_stunned]_vars
    /\ [][traps' \subseteq traps =>
            \/ traps' = traps
            \/ (ai_stunned = 0 /\ ai_stunned' > 0)
            \/ (ai2_stunned = 0 /\ ai2_stunned' > 0)]_vars
    /\ [](successful_traps + Cardinality(traps) <= NUM_TRAPS - traps_left)

\* Two traps placed and consumed: each adversary was stunned by one of them.
C5_Witness ==
    /\ successful_traps = 2
    /\ ai_stunned > 0 /\ ai2_stunned > 0
    /\ traps = {}
    /\ traps_left = NUM_TRAPS - 2

\* The session so far consisted of k turns, each a successful move east.
EastRun(k) ==
    /\ turn = k + 1
    /\ this_game_moves = [i \in 1 .. k |-> "east"]

\* C6 (SpecV3: open 5 x 5 grid, player (0,0), adversary (4,4), goal (0,4)): when
\* every action is a move east, the first three turns each append east and end
\* with the session playing and the adversary off the player's cell, and the
\* fourth east wins with the moves east, east, east, east.
C6_FourEastsWin ==
    /\ [][\A k \in 0 .. 2 : (pc = "input" /\ EastRun(k) /\ ch' = "east") =>
            /\ this_game_moves' = Append(this_game_moves, "east")
            /\ result' = "playing"
            /\ pc' = "aiA"]_vars
    /\ [][\A k \in 1 .. 3 :
            (pc = "check" /\ turn = k /\ this_game_moves = [i \in 1 .. k |-> "east"]) =>
                /\ ai_pos # player_pos
                /\ result' = "playing"
                /\ pc' = "input"]_vars
    /\ [][(pc = "input" /\ EastRun(3) /\ ch' = "east") =>
            /\ this_game_moves' = <<"east", "east", "east", "east">>
            /\ player_pos' = goal_pos
            /\ result' = "win"
            /\ pc' = "done"]_vars

\* The session won by the fourth move east, the adversary standing on the goal.
C6_Witness ==
    /\ pc = "done" /\ result = "win" /\ turn = 4
    /\ this_game_moves = <<"east", "east", "east", "east">>
    /\ player_pos = <<0, 4>>

\* C7: after the adversaries' turns the session is lost exactly when an adversary
\* is on the player's cell, so at a turn boundary none is.
C7_LostIffCaught ==
    /\ [][pc = "check" =>
            (result' = "loss" <=> (ai_pos = player_pos \/ ai2_pos = player_pos))]_vars
    /\ [](pc = "input" => ai_pos # player_pos /\ ai2_pos # player_pos)
    /\ [](result = "loss" => (ai_pos = player_pos \/ ai2_pos = player_pos))

\* A session lost to the secondary adversary alone.
C7_Witness ==
    /\ pc = "done" /\ result = "loss"
    /\ ai2_pos = player_pos /\ ai_pos # player_pos

\* C8: whenever an adversary and the player share a cell at any point of a
\* turn, the player's own move included, the session ends in a loss in that turn.
C8_SharedCellIsLoss ==
    /\ (pc = "input" => ~met)
    /\ ((pc = "done" /\ met) => result = "loss")

\* C9: a turn whose action leaves the player on the goal ends the session as won
\* at once: no adversary moves, no trap is consumed, no stun counter changes,
\* and the session is not lost.
C9_WinBeforeAdversaries ==
    /\ [][(pc = "input" /\ player_pos' = goal_pos) =>
            /\ result' = "win"
            /\ pc' = "done"
            /\ UNCHANGED <<ai_pos, ai2_pos, traps, ai_stunned, ai2_stunned,
                           successful_traps>>]_vars
    /\ [](player_pos = goal_pos => (pc = "done" /\ result = "win"))

\* A session won by stepping onto the goal while an adversary stands on it.
C9_Witness ==
    /\ pc = "done" /\ result = "win"
    /\ (ai_pos = goal_pos \/ ai2_pos = goal_pos)

\* C10: the key q ends the session at once with a record of result quit, and
\* changes nothing else.
C10_QuitChangesNothing ==
    [][(pc = "input" /\ ch' = "q") =>
        /\ pc' = "done"
        /\ result' = "quit"
        /\ UNCHANGED <<player_pos, ai_pos, ai2_pos, traps, traps_left,
                       ai_stunned, ai2_stunned, this_game_moves,
                       successful_traps, turn>>
        /\ memfile'.games = Append(load_memory(memfile),
                                   [moves |-> this_game_moves, result |-> "quit",
                                    grid |-> size,
                                    successful_traps |-> successful_traps])]_vars

\* A session quit in mid-game: a trap armed, an adversary stunned, moves made.
C10_Witness ==
    /\ pc = "done" /\ result = "quit"
    /\ traps # {} /\ ai_stunned > 0 /\ this_game_moves # <<>> /\ turn >= 3

\* C11: a turn whose key is none of q, t and the direction keys does not advance
\* the game: the player, the adversaries, the stun counters, the traps and the
\* turn counter stay as they are in every step of that turn, up to the next key.
C11_UnrecognizedKeyChangesNothing ==
    [][(ch = "other" \/ ch' = "other") =>
        UNCHANGED <<player_pos, ai_pos, ai2_pos, ai_stunned, ai2_stunned,
                    traps, turn>>]_vars

\* C12: a direction key whose destination is out of bounds or a WALL leaves the
\* player's position and the move list unchanged, however often it is repeated;
\* a direction key whose destination is legal moves the player exactly one cell,
\* onto that destination, and appends exactly its label; the key t changes
\* neither the position nor the move list.
C12_MoveEffect ==
    /\ [][\A d \in DirLabels : (pc = "input" /\ ch' = d) =>
            LET dest == <<player_pos[1] + DIRS(d)[1], player_pos[2] + DIRS(d)[2]>>
            IN  IF dest \in Cells(size) \ walls
                THEN /\ player_pos' = dest
                     /\ manhattan(player_pos, player_pos') = 1
                     /\ this_game_moves' = this_game_moves \o <<d>>
                ELSE UNCHANGED <<player_pos, this_game_moves>>]_vars
    /\ [][(pc = "input" /\ ch' = "t") => UNCHANGED <<player_pos, this_game_moves>>]_vars
    /\ [][pc # "input" => UNCHANGED <<player_pos, this_game_moves>>]_vars

\* The key south blocked by a WALL in turn 2, after a first turn that moved
\* nothing: the move list is still empty.
C12_Witness ==
    /\ pc = "aiA" /\ turn = 2 /\ ch = "south"
    /\ <<player_pos[1] + 1, player_pos[2]>> \in walls
    /\ this_game_moves = <<>>
    /\ traps_left = NUM_TRAPS

\* A legal move made after a blocked one: one label in the move list in turn 2.
C12_WitnessLegal ==
    /\ pc = "aiA" /\ turn = 2 /\ ch \in DirLabels
    /\ this_game_moves = <<ch>>
    /\ traps_left = NUM_TRAPS

\* C13: the key t with budget left and no armed trap on the player's cell arms
\* exactly that cell and lowers traps_left by one; with no budget left, or with
\* a trap already on the cell, it changes neither; traps_left never increases
\* and never drops below zero.
C13_TrapPlacement ==
    /\ [][(pc = "input" /\ ch' = "t") =>
            IF traps_left > 0 /\ player_pos \notin traps
            THEN /\ traps' = traps \cup {player_pos}
                 /\ Cardinality(traps') = Cardinality(traps) + 1
                 /\ traps_left' = traps_left - 1
            ELSE UNCHANGED <<traps, traps_left>>]_vars
    /\ [][traps_left' <= traps_left]_vars
    /\ []((pc # "query" /\ pc # "answered") =>
            (traps_left >= 0 /\ traps_left <= NUM_TRAPS))

\* The key t pressed with the budget used up: the player's cell is not armed.
C13_Witness ==
    /\ pc = "aiA" /\ ch = "t"
    /\ traps_left = 0
    /\ player_pos \notin traps

\* A turn boundary at which the player stands on an armed trap with budget left.
C13_WitnessTrapHere ==
    /\ pc = "input" /\ turn <= MaxTurn
    /\ traps_left > 0
    /\ player_pos \in traps

\* The key t of the first turn has armed the player's cell.
C13_WitnessPlaced ==
    /\ pc = "aiA" /\ ch = "t" /\ turn = 1
    /\ traps_left = NUM_TRAPS - 1
    /\ traps = {player_pos}

\* C14: when ai_memory.json is missing or unreadable, the session starts with
\* an empty history, a model without contexts and global counts that are all
\* zero; it is played like any other; and the step that ends it leaves the file
\* holding exactly the one record of this session.  (Of the files the sessions
\* start from only the missing or unreadable one gives an empty history.)
C14_UnreadableStoreIsEmptyHistory ==
    /\ [](~memfile.ok =>
            /\ pc \in {"input", "aiA", "aiB", "check"}
            /\ result = "playing"
            /\ memory = <<>>
            /\ DOMAIN model = {}
            /\ \A d \in DirLabels : global_counts[d] = 0)
    /\ [][(~memfile.ok /\ pc' = "done") =>
            /\ result' \in Terminal
            /\ memfile'.ok
            /\ memfile'.games = <<[moves |-> this_game_moves', result |-> result',
                                   grid |-> size,
                                   successful_traps |-> successful_traps']>>]_vars
    /\ []((pc = "done" /\ memory = <<>>) => Len(memfile.games) = 1)

\* A session that started without a readable file, lost after a trap had
\* stunned an adversary; the file holds its record.
C14_Witness ==
    /\ pc = "done" /\ result = "loss"
    /\ memory = <<>> /\ DOMAIN model = {}
    /\ Len(memfile.games) = 1
    /\ successful_traps >= 1 /\ turn >= 3

\* The same for a session that was won.
C14_WitnessWin ==
    /\ pc = "done" /\ result = "win"
    /\ memory = <<>> /\ Len(memfile.games) = 1

\* ------------------------------------------------------------------------
\* Properties of predict_next_move (checked under SpecPredict).
\* ------------------------------------------------------------------------
\* Occurrences of m among the last RECENT_MOVES moves of the query.
RecentCount(m) ==
    Cardinality({i \in 1 .. Len(this_game_moves) :
                    /\ i > Len(this_game_moves) - RECENT_MOVES
                    /\ this_game_moves[i] = m})

\* C15 as stated: with a model built from an empty history, every query, empty
\* or not, gives all four directions the same score, the fuzz constant.
C15_EmptyHistoryAllScoresFuzz ==
    (pc = "predicted" /\ memory = <<>>) =>
        \A m \in DirLabels : combined[m] = PREDICT_FUZZ

\* C15 as amended: with a model built from an empty history, the score of a
\* direction is the fuzz constant plus the recency weight times its occurrences
\* among the last RECENT_MOVES moves of the query; so the empty query gives all
\* four directions the fuzz constant, and any direction can be returned.
C15_EmptyHistoryScores ==
    (pc = "predicted" /\ memory = <<>>) =>
        /\ \A m \in DirLabels :
              combined[m] = PREDICT_FUZZ + RECENCY_WEIGHT * RecentCount(m)
        /\ this_game_moves = <<>> => \A m \in DirLabels : combined[m] = PREDICT_FUZZ
        /\ predicted \in DirLabels

\* A query longer than the recency window, answered from an empty history: its
\* first move has left the window and scores the fuzz constant only.
C15_Witness ==
    /\ pc = "predicted" /\ memory = <<>>
    /\ Len(this_game_moves) > RECENT_MOVES
    /\ combined[this_game_moves[1]] = PREDICT_FUZZ
    /\ combined[this_game_moves[2]] = PREDICT_FUZZ + RECENCY_WEIGHT * RECENT_MOVES

\* The empty query answered from an empty history.
C15_WitnessEmptyQuery ==
    /\ pc = "predicted" /\ memory = <<>> /\ this_game_moves = <<>>
    /\ predicted = "west"

\* ------------------------------------------------------------------------
\* Properties of a round of the adversaries (checked under SpecTurn).
\* ------------------------------------------------------------------------
\* The intercept target: the first step of the player's path to the goal, or
\* the player's cell when there is no path.
InterceptTarget ==
    LET path_step == bfs_first_step(player_pos, goal_pos, size, walls)
    IN  IF path_step # None THEN path_step ELSE player_pos

\* The turn of the primary adversary is about to be taken by an adversary that
\* is not stunned and stands next to the player on a grid without walls.
AdjacentCase ==
    /\ pc = "aiA" /\ pc' # "aiA"
    /\ walls = {}
    /\ ai_stunned = 0
    /\ Adjacent(ai_pos, player_pos)
    /\ player_pos # goal_pos

\* After the turn the adversary is one cell away from where it was and one
\* step nearer to the intercept target; it is on the player's cell only when
\* that cell is on a shortest path to the intercept target.
MovedOneCloser ==
    /\ manhattan(ai_pos, ai_pos') = 1
    /\ manhattan(ai_pos', InterceptTarget) = manhattan(ai_pos, InterceptTarget) - 1
    /\ ai_pos' = player_pos =>
          manhattan(ai_pos, player_pos) + manhattan(player_pos, InterceptTarget)
              = manhattan(ai_pos, InterceptTarget)

\* C16 as stated: on a grid without walls, an adversary that is not stunned and
\* stands next to the player has after its turn moved exactly one cell, onto
\* the player's cell (only when that lies on its path to the intercept target)
\* or one step nearer to the intercept target.
C16_AdjacentAdversaryMovesOne ==
    [][AdjacentCase => MovedOneCloser]_vars

\* C16 as amended: the same, unless the adversary already stands on the
\* intercept target or, in the dual game, the first step of its path is the
\* secondary adversary's cell; then it stays where it is.
C16_AdjacentAdversaryMovesOrHolds ==
    [][AdjacentCase =>
         IF \/ ai_pos = InterceptTarget
            \/ /\ pc' = "aiB"
               /\ bfs_first_step(ai_pos, InterceptTarget, size, walls) = ai2_pos
         THEN ai_pos' = ai_pos
         ELSE MovedOneCloser]_vars

\* The primary adversary of the dual game, next to the player and already on
\* the intercept target, has held its cell.
C16_Witness ==
    /\ pc = "aiB" /\ walls = {}
    /\ ai_stunned = 0
    /\ Adjacent(ai_pos, player_pos)
    /\ ai_pos = InterceptTarget

\* The primary adversary has stepped from a cell next to the player onto the
\* player's cell, where a trap was armed.
C16_WitnessCaught ==
    /\ pc = "aiB" /\ walls = {}
    /\ ai_pos = player_pos
    /\ ai_stunned = AI_STUN_TURNS

\* ------------------------------------------------------------------------
\* Properties of the sessions, continued (checked under Spec).
\* ------------------------------------------------------------------------
\* Some neighbour of the secondary adversary is legal, not the primary
\* adversary's cell, and nearer to the player than the adversary is.
NearerCandidate ==
    \E d \in DirLabels :
        LET cand == <<ai2_pos[1] + DIRS(d)[1], ai2_pos[2] + DIRS(d)[2]>>
        IN  /\ cand \in Cells(size) \ walls
            /\ cand # ai_pos
            /\ manhattan(cand, player_pos) < manhattan(ai2_pos, player_pos)

\* C17: a stun counter is set to AI_STUN_TURNS by a step onto an armed trap and
\* by nothing else; while it is positive, each turn of its adversary leaves the
\* adversary where it is, consumes no trap and lowers the counter by exactly
\* one, so after AI_STUN_TURNS such turns it is 0; an adversary whose counter is
\* 0 acts in its turn; the counters stay within 0 .. AI_STUN_TURNS.
C17_StunCountdown ==
    /\ [](ai_stunned \in 0 .. AI_STUN_TURNS /\ ai2_stunned \in 0 .. AI_STUN_TURNS)
    /\ [][(pc = "aiA" /\ ai_stunned > 0) =>
            /\ ai_pos' = ai_pos
            /\ traps' = traps
            /\ ai_stunned' = ai_stunned - 1]_vars
    /\ [][(pc = "aiB" /\ ai2_stunned > 0) =>
            /\ ai2_pos' = ai2_pos
            /\ traps' = traps
            /\ ai2_stunned' = ai2_stunned - 1]_vars
    /\ [][(pc = "aiA" /\ ai_stunned = 0) =>
            /\ \/ ai_stunned' = 0 /\ ai_pos' \notin traps
               \/ ai_stunned' = AI_STUN_TURNS /\ ai_pos' \in traps
            /\ (/\ ai_pos # InterceptTarget
                /\ Reachable(ai_pos, InterceptTarget, size, walls)
                /\ bfs_first_step(ai_pos, InterceptTarget, size, walls) # ai2_pos)
               => ai_pos' # ai_pos]_vars
    /\ [][(pc = "aiB" /\ ai2_stunned = 0) =>
            /\ \/ ai2_stunned' = 0 /\ ai2_pos' \notin traps
               \/ ai2_stunned' = AI_STUN_TURNS /\ ai2_pos' \in traps
            /\ NearerCandidate => ai2_pos' # ai2_pos]_vars
    /\ [][pc # "aiA" => ai_stunned' = ai_stunned]_vars
    /\ [][pc # "aiB" => ai2_stunned' = ai2_stunned]_vars
    /\ [][turn' # turn => (pc = "check" /\ turn' = turn + 1)]_vars
    /\ [][pc = "aiA" => pc' = "aiB"]_vars
    /\ [][pc = "aiB" => pc' = "check"]_vars

\* The secondary adversary stepped onto the trap the player had left on (1,2)
\* in turn 2; its counter was 1 after turn 3 and 0 after turn 4, and it is
\* about to take its turn 5 with the counter at 0.
C17_Witness ==
    /\ pc = "aiB" /\ turn = 5
    /\ this_game_moves = <<"east">> /\ player_pos = <<1, 3>>
    /\ ai2_pos = <<1, 2>>
    /\ successful_traps = 1 /\ traps = {<<1, 3>>}
    /\ ai_stunned = 0 /\ ai2_stunned = 0

\* The traps consumed so far in the session: those armed and no longer there.
TrapsConsumed == (NUM_TRAPS - traps_left) - Cardinality(traps)

\* C19: successful_traps goes up by exactly one in every turn of an adversary
\* that began it unstunned and ends it stunned, having stepped onto an armed
\* trap, and changes in no other step (not while a counter counts down); it
\* equals the number of traps consumed, and the record of the session holds it.
C19_SuccessfulTrapsCountsStuns ==
    /\ [][(pc = "aiA" /\ ai_stunned = 0 /\ ai_stunned' > 0) =>
            successful_traps' = successful_traps + 1]_vars
    /\ [][(pc = "aiB" /\ ai2_stunned = 0 /\ ai2_stunned' > 0) =>
            successful_traps' = successful_traps + 1]_vars
    /\ [][successful_traps' # successful_traps =>
            /\ successful_traps' = successful_traps + 1
            /\ \/ /\ pc = "aiA" /\ ai_stunned = 0 /\ ai_stunned' = AI_STUN_TURNS
                  /\ ai_pos' \in traps /\ traps' = traps \ {ai_pos'}
               \/ /\ pc = "aiB" /\ ai2_stunned = 0 /\ ai2_stunned' = AI_STUN_TURNS
                  /\ ai2_pos' \in traps /\ traps' = traps \ {ai2_pos'}]_vars
    /\ [](successful_traps = TrapsConsumed)
    /\ [](pc = "done" => LastGame.successful_traps = TrapsConsumed)

\* The record of a session in which one trap was consumed and the counter of
\* the stunned adversary has since counted down to 1.
C19_Witness ==
    /\ pc = "done"
    /\ LastGame.successful_traps = 1
    /\ ai_stunned + ai2_stunned = 1
    /\ traps # {}

\* C24: in every reachable state of a session the traps still to place, the
\* armed traps and the stuns counted add up to the trap budget NUM_TRAPS, so
\* that no more traps are armed than were placed.
C24_TrapConservation ==
    /\ traps_left + Cardinality(traps) + successful_traps = NUM_TRAPS
    /\ Cardinality(traps) <= NUM_TRAPS - traps_left
    /\ traps_left >= 0 /\ successful_traps >= 0

\* At a turn boundary: the budget is spent, one trap has stunned an adversary
\* and one is still armed.
C24_Witness ==
    /\ pc = "input"
    /\ traps_left = 0
    /\ Cardinality(traps) = 1
    /\ successful_traps = NUM_TRAPS - 1

\* A finished session in which every trap of the budget stunned an adversary.
C24_WitnessAllConsumed ==
    /\ pc = "done"
    /\ traps_left = 0 /\ traps = {}
    /\ successful_traps = NUM_TRAPS

\* The steps an adversary standing on cell a may take in its turn.
Budget(a) == IF manhattan(a, player_pos) > CLOSE_RANGE + 2 THEN 2 ELSE 1

\* The cells an entity may stand on: in bounds and not a WALL.
FreeCells == {c \in Cells(size) : c \notin walls}

\* b is reached from a by at most k steps, each onto an orthogonally adjacent
\* free cell (k is 1 or 2).
WithinSteps(a, b, k) ==
    \/ a = b
    \/ Adjacent(a, b) /\ b \in FreeCells
    \/ /\ k = 2 /\ b \in FreeCells
       /\ \E mid \in FreeCells : Adjacent(a, mid) /\ Adjacent(mid, b)

\* C25: in every reachable state the player and both adversaries stand on
\* in-bounds cells that are not WALL, and so does every armed trap; a key moves
\* the player by at most one orthogonal cell and no adversary, and the turn of
\* an adversary moves that adversary alone, by the steps of its budget, each
\* onto an orthogonally adjacent in-bounds cell that is not a WALL.
C25_OnGridOneCellMoves ==
    /\ []({player_pos, ai_pos, ai2_pos} \subseteq FreeCells)
    /\ [](traps \subseteq FreeCells)
    /\ [][WithinSteps(player_pos, player_pos', 1)]_vars
    /\ [][pc = "input" => (ai_pos' = ai_pos /\ ai2_pos' = ai2_pos)]_vars
    /\ [][pc # "input" => player_pos' = player_pos]_vars
    /\ [][/\ WithinSteps(ai_pos, ai_pos', Budget(ai_pos))
          /\ ai_pos' # ai_pos => (pc = "aiA" /\ ai2_pos' = ai2_pos)]_vars
    /\ [][/\ WithinSteps(ai2_pos, ai2_pos', Budget(ai2_pos))
          /\ ai2_pos' # ai2_pos => (pc = "aiB" /\ ai_pos' = ai_pos)]_vars

\* On the grid with the Barrier the primary adversary has taken two steps, around
\* a corner, in one turn.
C25_Witness ==
    /\ walls # {}
    /\ pc = "aiB"
    /\ turn = 1
    /\ \E st \in Starts :
          /\ st.walls = walls /\ st.ai2 = ai2_pos
          /\ manhattan(st.ai, ai_pos) = 2
          /\ st.ai[1] # ai_pos[1] /\ st.ai[2] # ai_pos[2]

\* The player stands next to a WALL it has run into: the key left it in place.
C25_WitnessBlocked ==
    /\ pc = "aiA"
    /\ ch \in DirLabels
    /\ Add(player_pos, ch) \in walls
    /\ this_game_moves = <<>>

\* C26: at every turn boundary of a session still being played no adversary
\* stands on an armed trap: a trap is armed on the player's cell only, where no
\* adversary stands at a turn boundary, and the step of an adversary onto an
\* armed trap removes it.
C26_NoAdversaryOnArmedTrap ==
    /\ []((pc = "input" /\ result = "playing") =>
            /\ ai_pos \notin traps /\ ai2_pos \notin traps
            /\ player_pos \notin {ai_pos, ai2_pos})
    /\ [][traps' \ traps \subseteq {player_pos} /\ (traps' \ traps # {} => pc = "input")]_vars
    /\ [][(pc = "aiA" /\ ai_pos' # ai_pos) => ai_pos' \notin traps']_vars
    /\ [][(pc = "aiB" /\ ai2_pos' # ai2_pos) => ai2_pos' \notin traps']_vars

\* A turn boundary with a trap armed next to the primary adversary, which has
\* been stunned by another one and stands where that one was.
C26_Witness ==
    /\ pc = "input" /\ result = "playing"
    /\ ai_stunned > 0
    /\ traps # {}
    /\ \E t \in traps : Adjacent(t, ai_pos)

\* A turn boundary at which the player stands on the trap it has armed.
C26_WitnessPlayerOnTrap ==
    /\ pc = "input" /\ result = "playing"
    /\ player_pos \in traps

\* ------------------------------------------------------------------------
\* Properties of a round of the adversaries, continued (checked under SpecTurn).
\* ------------------------------------------------------------------------
\* C18: an adversary that is not stunned ends its turn at most 2 cells from
\* where it began when it began more than CLOSE_RANGE + 2 from the player, at
\* most 1 cell otherwise; the budget is that of the start of the turn: begun
\* more than CLOSE_RANGE + 2 away on an open grid, with no trap met and the other
\* adversary not in the way, it ends two steps nearer to what it steers for,
\* also when the first step took it within CLOSE_RANGE + 2; the trap it
\* consumes is the cell it ends on (a trap met on the first step ends the turn
\* there), and a step onto the other adversary's cell ends the turn before it.
C18_StepBudget ==
    /\ [][(pc = "aiA" /\ ai_stunned = 0) =>
            \A target \in {InterceptTarget} :
            \A first \in {bfs_first_step(ai_pos, target, size, walls)} :
            /\ manhattan(ai_pos, ai_pos') <= Budget(ai_pos)
            /\ traps' # traps =>
                  (traps \ traps' = {ai_pos'} /\ ai_stunned' = AI_STUN_TURNS)
            /\ (first # None /\ first \in traps
                /\ (pc' = "aiB" => first # ai2_pos)) =>
                  (ai_pos' = first /\ ai_stunned' = AI_STUN_TURNS)
            /\ (pc' = "aiB" /\ first = ai2_pos) => ai_pos' = ai_pos
            /\ pc' = "aiB" => ai_pos' # ai2_pos
            /\ (Budget(ai_pos) = 2 /\ walls = {} /\ traps' = traps) =>
                  \/ manhattan(ai_pos', target) = manhattan(ai_pos, target) - 2
                  \/ pc' = "aiB" /\ first = ai2_pos /\ ai_pos' = ai_pos
                  \/ /\ pc' = "aiB" /\ ai_pos' = first
                     /\ bfs_first_step(first, target, size, walls) = ai2_pos]_vars
    /\ [][(pc = "aiB" /\ ai2_stunned = 0) =>
            /\ manhattan(ai2_pos, ai2_pos') <= Budget(ai2_pos)
            /\ traps' # traps =>
                  (traps \ traps' = {ai2_pos'} /\ ai2_stunned' = AI_STUN_TURNS)
            /\ ai2_pos' # ai_pos
            /\ (/\ Budget(ai2_pos) = 2 /\ walls = {} /\ traps' = traps
                /\ manhattan(ai_pos, ai2_pos) > 2) =>
                  manhattan(ai2_pos', player_pos)
                        = manhattan(ai2_pos, player_pos) - 2]_vars

\* The primary adversary has taken two steps (the adversaries begin a round at
\* most 2 cells apart and are now 4 apart) from a cell 5 from the player: its
\* second step began 4 from the player.
C18_Witness ==
    /\ pc = "aiB" /\ walls = {}
    /\ manhattan(ai_pos, ai2_pos) = 4
    /\ manhattan(ai_pos, player_pos) = 3
    /\ ai_stunned = 0

\* The primary adversary, stunned on a trap 4 cells from the player with the
\* adversaries 3 apart: it began 5 from the player and the trap ended its turn
\* after one step, or it reached the trap with its second step.
C18_WitnessTrap ==
    /\ pc = "aiB" /\ walls = {}
    /\ ai_stunned = AI_STUN_TURNS
    /\ manhattan(ai_pos, player_pos) = 4
    /\ manhattan(ai_pos, ai2_pos) = 3

\* The directions whose neighbour of pos is a legal candidate for the secondary
\* adversary: in bounds, not a wall, not the primary adversary's cell.
LegalDirs(pos) ==
    {i \in 1..4 : LET cand == Add(pos, DirOrder[i])
                  IN  in_bounds(cand, size) /\ cand \notin walls /\ cand # ai_pos}

\* The legal candidate nearest to the player, the first in direction order
\* among equals; pos itself when there is no legal candidate.
NearestCandidate(pos) ==
    IF LegalDirs(pos) = {} THEN pos
    ELSE Add(pos, DirOrder[CHOOSE i \in LegalDirs(pos) :
                 \A j \in LegalDirs(pos) :
                    \/ manhattan(Add(pos, DirOrder[i]), player_pos)
                         < manhattan(Add(pos, DirOrder[j]), player_pos)
                    \/ /\ manhattan(Add(pos, DirOrder[i]), player_pos)
                            = manhattan(Add(pos, DirOrder[j]), player_pos)
                       /\ i <= j])

\* The cell reached by k steps to the nearest candidate, a trap ending the turn.
RECURSIVE NearestSteps(_, _)
NearestSteps(k, pos) ==
    IF k = 0 THEN pos
    ELSE IF NearestCandidate(pos) \in traps THEN NearestCandidate(pos)
         ELSE NearestSteps(k - 1, NearestCandidate(pos))

\* C20: at each step of its budget the secondary adversary, when it is not
\* stunned and has a legal candidate, moves to the legal candidate nearest to
\* the player's cell, the first in the order north, south, west, east among
\* equals.
C20_SecondaryMovesToNearestCandidate ==
    [][(pc = "aiB" /\ ai2_stunned = 0) =>
         ai2_pos' = NearestSteps(Budget(ai2_pos), ai2_pos)]_vars

\* ------------------------------------------------------------------------
\* Properties of bfs_first_step, continued (checked under SpecBfs).
\* ------------------------------------------------------------------------
\* The directions whose neighbour of bfs_start lies on a shortest path to
\* bfs_target: an in-bounds non-WALL cell one step nearer to it.
OnShortestPath ==
    {i \in 1..4 :
        LET nb == Add(bfs_start, DirOrder[i])
        IN  /\ in_bounds(nb, size) /\ nb \notin walls
            /\ Dist(nb, bfs_target, size, walls)
                  = Dist(bfs_start, bfs_target, size, walls) - 1}

FirstOnShortestPath ==
    Add(bfs_start, DirOrder[CHOOSE i \in OnShortestPath :
                               \A j \in OnShortestPath : i <= j])

\* C21: for start # target with target reachable, bfs_first_step returns the
\* neighbour of start that is first in the order north, south, west, east among
\* those on a shortest path to target; the answer is determined by start,
\* target and the grid.
C21_FirstInDirectionOrder ==
    (/\ pc = "answered"
     /\ bfs_start # bfs_target
     /\ Reachable(bfs_start, bfs_target, size, walls)) =>
        bfs_step = FirstOnShortestPath

\* Two neighbours of start are on shortest paths, and north, though a legal
\* neighbour, is not: the answer is the earlier of the two, not north.
C21_Witness ==
    /\ pc = "answered"
    /\ bfs_start # bfs_target
    /\ Cardinality(OnShortestPath) = 2
    /\ 1 \notin OnShortestPath
    /\ Add(bfs_start, DirOrder[1]) \in Cells(size) \ walls
    /\ bfs_step = FirstOnShortestPath

\* A path around walls with two first steps of equal length.
C21_WitnessAroundWalls ==
    /\ pc = "answered"
    /\ Cardinality(OnShortestPath) >= 2
    /\ Dist(bfs_start, bfs_target, size, walls) > manhattan(bfs_start, bfs_target)
    /\ bfs_step = FirstOnShortestPath

\* ------------------------------------------------------------------------
\* Properties of a round of the adversaries, continued (checked under SpecTurn).
\* ------------------------------------------------------------------------
\* The neighbour of a in direction i lies on a shortest path to b, which is d
\* steps from a.
Towards(i, a, b, d) ==
    LET nb == Add(a, DirOrder[i])
    IN  /\ in_bounds(nb, size) /\ nb \notin walls
        /\ Dist(nb, b, size, walls) = d - 1

\* The first direction, from the i-th on in the order north, south, west, east,
\* whose neighbour of a lies on a shortest path to b.
RECURSIVE FirstTowards(_, _, _, _)
FirstTowards(i, a, b, d) ==
    IF i = 4 \/ Towards(i, a, b, d) THEN i ELSE FirstTowards(i + 1, a, b, d)

\* The intercept target as the claim has it: the first cell, in direction
\* order, of a shortest path of the player to the goal; the player's cell when
\* the goal cannot be reached (or the player stands on it).
ClaimedTarget ==
    CHOOSE t \in
        {IF 0 < d /\ d <= size * size
         THEN Add(player_pos, DirOrder[FirstTowards(1, player_pos, goal_pos, d)])
         ELSE player_pos
           : d \in {Dist(player_pos, goal_pos, size, walls)}} : TRUE

\* The directions whose neighbour of pos is in bounds, not a WALL and not the
\* cell other.
FreeDirs(pos, other) ==
    {i \in 1..4 : LET cand == Add(pos, DirOrder[i])
                  IN  in_bounds(cand, size) /\ cand \notin walls /\ cand # other}

\* The free neighbour of pos nearest to target by Manhattan distance, the
\* first in direction order among equals; pos when it has no free neighbour.
NearestFree(pos, target, other) ==
    IF FreeDirs(pos, other) = {} THEN pos
    ELSE Add(pos, DirOrder[CHOOSE i \in FreeDirs(pos, other) :
                 \A j \in FreeDirs(pos, other) :
                    \/ manhattan(Add(pos, DirOrder[i]), target)
                         < manhattan(Add(pos, DirOrder[j]), target)
                    \/ /\ manhattan(Add(pos, DirOrder[i]), target)
                            = manhattan(Add(pos, DirOrder[j]), target)
                       /\ i <= j])

\* The cell reached by k such steps, a step onto a trap being the last.
RECURSIVE FallbackSteps(_, _, _, _)
FallbackSteps(k, pos, target, other) ==
    IF k = 0 \/ pos \in traps THEN pos
    ELSE FallbackSteps(k - 1, NearestFree(pos, target, other), target, other)

\* C22: the primary adversary steers for the first step of the player's
\* shortest path to the goal, or for the player's cell when the goal is out of
\* the player's reach: when it can reach that cell, every step it takes brings
\* it one step nearer to it; when it cannot, each step of its budget takes it to
\* the free neighbour (in bounds, not a WALL, not the other adversary's cell)
\* nearest to that cell by Manhattan distance, first in the order north, south,
\* west, east among equals, also when that neighbour is farther away than the
\* cell it leaves, and a step leaves it where it is only when it has no free
\* neighbour (two such steps may take it away and back).
C22_InterceptTargetAndFallback ==
    [][(pc = "aiA" /\ ai_stunned = 0) =>
         \A target \in {ClaimedTarget} :
         \A other \in {IF pc' = "aiB" THEN ai2_pos ELSE None} :
         \A d \in {Dist(ai_pos, target, size, walls)} :
            IF d <= size * size
            THEN Dist(ai_pos', target, size, walls) = d - manhattan(ai_pos, ai_pos')
            ELSE /\ ai_pos' = FallbackSteps(Budget(ai_pos), ai_pos, target, other)
                 /\ (Budget(ai_pos) = 1 /\ ai_pos' = ai_pos) =>
                        FreeDirs(ai_pos, other) = {}]_vars

\* Shut in the pocket with the player outside, the adversary has gone from
\* (3,2) to its only free neighbour (3,3), one cell farther from the target (2,0).
C22_Witness ==
    /\ pc = "aiB"
    /\ walls = Pocket
    /\ player_pos = <<3, 0>> /\ goal_pos = <<0, 0>>
    /\ ai_pos = <<3, 3>>
    /\ ai_stunned = 0
    /\ ClaimedTarget = <<2, 0>>

\* Shut in the pocket with the other adversary on its only neighbour, it stays.
C22_WitnessNoNeighbour ==
    /\ pc = "aiB"
    /\ walls = Pocket
    /\ ai_pos = <<3, 2>> /\ ai2_pos = <<3, 3>>
    /\ player_pos = <<0, 0>>
    /\ ai_stunned = 0

\* The goal is shut in the pocket, out of the player's reach: the adversary has
\* gone for the player's cell and met the trap armed there.
C22_WitnessGoalUnreachable ==
    /\ pc = "aiB"
    /\ walls = Pocket
    /\ goal_pos = <<3, 3>> /\ player_pos = <<1, 1>>
    /\ ClaimedTarget = player_pos
    /\ ai_pos = player_pos
    /\ ai_stunned = AI_STUN_TURNS /\ traps = {}

\* ------------------------------------------------------------------------
\* Properties of place_entities (checked under SpecPlace).
\* ------------------------------------------------------------------------
\* C23: whenever place_entities returns, on a grid with at least four EMPTY
\* cells, the cells of the player, the two adversaries and the goal are
\* pairwise distinct and each is an in-bounds cell that is not a WALL.
C23_PlacedDistinctOnEmptyCells ==
    (pc = "placed" /\ Cardinality(Cells(size) \ walls) >= 4) =>
        /\ player_pos # ai_pos /\ player_pos # ai2_pos /\ player_pos # goal_pos
        /\ ai_pos # ai2_pos /\ ai_pos # goal_pos /\ ai2_pos # goal_pos
        /\ \A c \in {player_pos, ai_pos, ai2_pos, goal_pos} :
              in_bounds(c, size) /\ c \notin walls

\* A return on a grid with exactly four EMPTY cells.
C23_Witness ==
    /\ pc = "placed"
    /\ Cardinality(Cells(size) \ walls) = 4
    /\ Placed(size, walls, player_pos, ai_pos, ai2_pos, goal_pos)

\* The loop is entered again with the two adversaries on one cell, the only
\* pair that coincides.
C23_WitnessResample ==
    /\ pc = "ai"
    /\ ai_pos = ai2_pos
    /\ Cardinality({player_pos, ai_pos, goal_pos}) = 3

\* ------------------------------------------------------------------------
\* Properties of the sessions, continued (checked under Spec).
\* ------------------------------------------------------------------------
\* Prediction models and move lists of another run: the models of the
\* recorded histories; no move yet, one move, the moves of a recorded game.
OtherRuns ==
    {[this_moves |-> h, built |-> build_markov_model(g, MARKOV_ORDER)] :
        h \in {<<>>, <<"north">>, OldGame.moves}, g \in Histories}

\* C27: the turn of the primary adversary is determined by the grid, its cell,
\* the other adversary's cell, the player's cell, the goal, the armed traps and
\* its stun counter: called with any other prediction model and any other
\* list of moves, ai_a_turn gives the position, stun counter and traps that the
\* turn taken in the session gives.
C27_TurnIgnoresPrediction ==
    [][pc = "aiA" =>
         \A o \in OtherRuns :
            ai_a_turn(ai_pos, player_pos, size, walls, traps, o.this_moves,
                      o.built.model, o.built.global_counts, ai_stunned, goal_pos,
                      ai2_pos)
              = [pos |-> ai_pos', stunned |-> ai_stunned', traps |-> traps']]_vars

\* The turn of an adversary that moved, in a session that began with a recorded
\* game (a model with contexts) and in which the player has made two moves.
C27_Witness ==
    /\ pc = "aiB"
    /\ DOMAIN model # {}
    /\ Len(this_game_moves) = 2
    /\ turn = 3
    /\ ai_stunned = 0
    /\ \E st \in Starts : st.walls = walls /\ manhattan(st.ai, ai_pos) >= 3

\* The same turn in a session that began without a record: the model is empty.
C27_WitnessEmptyModel ==
    /\ pc = "aiB"
    /\ DOMAIN model = {}
    /\ Len(this_game_moves) = 2
    /\ turn = 3
    /\ ai_stunned = 0
    /\ \E st \in Starts : st.walls = walls /\ manhattan(st.ai, ai_pos) >= 3

====
